---- MODULE Spec2Model ----
(***************************************************************************)
(* State-machine model of sg-bus-mcp-server.                               *)
(*                                                                         *)
(*  - the cached bus-stop dataset of the stateless route variant           *)
(*    (busStopsCache, busStopsCacheTime, fetchAllBusStops, getBusStops);   *)
(*  - the session registry and SSE connections of the session-routed       *)
(*    variant (sessions, GET, POST of src/app/api/sse/route.ts).           *)
(*                                                                         *)
(* Every await of the code is one step: what runs between two awaits runs  *)
(* without interleaving on the single JavaScript thread.                   *)
(***************************************************************************)
EXTENDS Integers, Sequences, FiniteSets, TLC

\* ------------------------------------------------------------ bounds ----
\* number of getBusStops invocations a behaviour holds (each may overlap the others)
MaxCalls == 2
\* number of times the wall clock is advanced
MaxTicks == 1

\* number of SSE connections opened on the session-routed route
MaxConns == 2
\* number of POSTs made to the session-routed route
MaxPosts == 2
\* number of heartbeat frames the live streams hold in all
MaxBeats == 1
\* number of SSE connections opened on the stateless route
MaxStreams == 1
\* number of POSTs made to the stateless route
MaxRpcs == 2
\* full pages the upstream dataset of a scan holds at most
MaxFullPages == 12
\* pages of the dataset that hold records of the requested service, at most
MaxHitPages == 2

\* ------------------------------------------------- program constants ----
CACHE_DURATION == 24 * 60 * 60 * 1000
PAGE_SIZE == 500
\* the offsets at which the uncached scans give up
BUS_STOPS_MAX == 6000
BUS_ROUTES_MAX == 5000

\* busStopsCache is null or an array: null is the empty tuple, an array p
\* (the empty array included) is the one-element tuple Some(p)
Null == <<>>
Some(p) == <<p>>
Value(opt) == opt[1]

Calls == 1..MaxCalls

\* sizes (in records) the upstream BusStops dataset takes: empty (first page
\* empty), one page and a bit (full, short), exactly two pages (full, full, empty)
UpSizes == {0, PAGE_SIZE + 1, 2 * PAGE_SIZE}

\* the largest of them
MaxUpSize == 2 * PAGE_SIZE

\* amounts the clock advances by in one step
TickSteps == {CACHE_DURATION - 1, CACHE_DURATION}

Min(a, b) == IF a < b THEN a ELSE b
Max(a, b) == IF a > b THEN a ELSE b

VARIABLES
  busStopsCache,      \* null or the payload of the last refresh that was stored
  busStopsCacheTime,  \* the `now` of the call that stored it; 0 at start
  clock,              \* Date.now()
  ticks,              \* how often the clock advanced
  upstream,           \* the number of records of the LTA BusStops dataset
  call,               \* per getBusStops invocation: its locals and its log
  lastGood,           \* history: payload of the last refresh that succeeded, or null
  completed           \* history: payloads returned by fetchAllBusStops

cacheVars == <<busStopsCache, busStopsCacheTime, clock, ticks, upstream, call,
               lastGood, completed>>

VARIABLES
  sessions,   \* the registry: session id -> the connection whose controller it holds
  conn,       \* per SSE connection of the session-routed route
  post        \* per POST to the session-routed route

sessionVars == <<sessions, conn, post>>

VARIABLES
  stream,     \* per SSE connection of the stateless route
  rpc         \* per POST to the stateless route

VARIABLES
  scan        \* one run of a tool that pages through an upstream dataset

vars == <<cacheVars, sessionVars, stream, rpc, scan>>

\* ----------------------------------------------------------- upstream ----
\* The records a request `BusStops?$skip=skip` returns, as one chunk: how many
\* records, from which offset. The API serves at most PAGE_SIZE records a page.
Page(skip) ==
  [skip |-> skip, len |-> Min(PAGE_SIZE, Max(0, upstream - skip))]

\* ------------------------------------------------------ getBusStops ----
IdleCall ==
  [pc |-> "idle", now |-> 0, skip |-> 0, allStops |-> <<>>,
   requested |-> <<>>, received |-> <<>>,
   outcome |-> "none", status |-> "none", result |-> <<>>,
   cold |-> FALSE, overlapped |-> {}]

\* line 65: busStopsCache && (now - busStopsCacheTime) < CACHE_DURATION
CacheFresh_le(now) ==
  busStopsCache # Null /\ (now - busStopsCacheTime) <= CACHE_DURATION
CacheFresh(now) ==
  busStopsCache # Null /\ (now - busStopsCacheTime) < CACHE_DURATION

\* line 75: busStopsCache || []   (an empty array is truthy: only null gives [])
StaleOrEmpty_empty == <<>>
StaleOrEmpty == IF busStopsCache = Null THEN <<>> ELSE Value(busStopsCache)

\* line 55: skip += 500
NextSkip_same(skip) == skip
NextSkip(skip) == skip + PAGE_SIZE

\* line 57: if (data.value.length < 500) break
ShortPage_le(page) == page.len <= PAGE_SIZE
ShortPage(page) == page.len < PAGE_SIZE

\* line 52: if (!data.value || data.value.length === 0) break
EmptyPage(page) == page.len = 0

\* lines 70 and 73-76: the cache after call c handled a response. `ok`: the
\* response had a success status; `returned`: fetchAllBusStops returned `acc`.
\* Only `busStopsCache = await fetchAllBusStops()` assigns the cache.
StoredCache_partial(ok, returned, acc) ==
  IF ok THEN Some(acc) ELSE busStopsCache
StoredCache_onfail(ok, returned, acc) ==
  IF (ok /\ returned) \/ ~ok THEN Some(acc) ELSE busStopsCache
StoredCache(ok, returned, acc) ==
  IF ok /\ returned THEN Some(acc) ELSE busStopsCache

\* line 71: busStopsCacheTime is assigned the now of line 64 in the same
\* statement sequence as the payload (only when fetchAllBusStops returned);
\* the catch block (lines 73-76) assigns nothing
StoredCacheTime_onfail(ok, returned, now) ==
  IF returned \/ ~ok THEN now ELSE busStopsCacheTime
StoredCacheTime(ok, returned, now) ==
  IF ok /\ returned THEN now ELSE busStopsCacheTime

\* lines 63-72, up to the first await: the freshness test, and on a miss the
\* first request of fetchAllBusStops (line 43, skip = 0). Calls are numbered in
\* the order they start. The locals now, skip and allStops live while the call
\* runs; requested, received, outcome, status and result are its log.
getBusStops(c) ==
  /\ call[c].pc = "idle"
  /\ \A d \in Calls : d < c => call[d].pc # "idle"
  /\ LET base == [call[c] EXCEPT
                    !.cold = (busStopsCache = Null),
                    !.overlapped = {d \in Calls : call[d].pc = "fetching"}]
     IN IF CacheFresh(clock)
        THEN call' = [call EXCEPT ![c] =
                        [base EXCEPT !.pc = "done", !.outcome = "hit",
                                     !.status = "returned",
                                     !.result = Value(busStopsCache)]]
        ELSE call' = [call EXCEPT ![c] =
                        [base EXCEPT !.pc = "fetching", !.now = clock,
                                     !.skip = 0, !.allStops = <<>>,
                                     !.requested = <<0>>]]
  /\ UNCHANGED <<busStopsCache, busStopsCacheTime, clock, ticks, upstream,
                 lastGood, completed>>
  /\ UNCHANGED sessionVars

\* lines 43-58 then 70-72: a page request of call c is answered with a success
\* status. The page is appended and either the next page is requested or
\* fetchAllBusStops returns and getBusStops stores and returns the result.
fetchAllBusStops_ok(c) ==
  /\ call[c].pc = "fetching"
  /\ LET page  == Page(call[c].skip)
         acc   == IF EmptyPage(page) THEN call[c].allStops
                  ELSE Append(call[c].allStops, page)
         skip2 == IF EmptyPage(page) THEN call[c].skip
                  ELSE NextSkip(call[c].skip)
         stop  == EmptyPage(page) \/ ShortPage(page)
         seen  == Append(call[c].received, page)
     IN /\ busStopsCache' = StoredCache(TRUE, stop, acc)
        /\ busStopsCacheTime' = StoredCacheTime(TRUE, stop, call[c].now)
        /\ IF stop
           THEN /\ call' = [call EXCEPT ![c] =
                     [@ EXCEPT !.pc = "done", !.outcome = "refreshed",
                               !.status = "returned",
                               !.now = 0, !.allStops = <<>>, !.skip = 0,
                               !.received = seen, !.result = acc]]
                /\ lastGood' = Some(acc)
                /\ completed' = completed \cup {acc}
           ELSE /\ call' = [call EXCEPT ![c] =
                     [@ EXCEPT !.allStops = acc, !.skip = skip2,
                               !.received = seen,
                               !.requested = Append(@, skip2)]]
                /\ UNCHANGED <<lastGood, completed>>
  /\ UNCHANGED <<clock, ticks, upstream>>
  /\ UNCHANGED sessionVars

\* lines 47-49 then 73-76: a page request of call c is answered with a
\* non-success status; fetchAllBusStops throws, getBusStops catches, logs and
\* returns the cache or [].
fetchAllBusStops_fail(c) ==
  /\ call[c].pc = "fetching"
  /\ busStopsCache' = StoredCache(FALSE, FALSE, call[c].allStops)
  /\ busStopsCacheTime' = StoredCacheTime(FALSE, FALSE, call[c].now)
  /\ call' = [call EXCEPT ![c] =
                [@ EXCEPT !.pc = "done", !.outcome = "failed",
                          !.status = "returned",
                          !.now = 0, !.allStops = <<>>, !.skip = 0,
                          !.result = StaleOrEmpty]]
  /\ UNCHANGED <<clock, ticks, upstream, lastGood, completed>>
  /\ UNCHANGED sessionVars

\* ------------------------------------------------------- environment ----
\* Date.now() is read when a call starts (line 64): the clock advances while
\* a call is still to come
Tick(d) ==
  /\ ticks < MaxTicks
  /\ \E c \in Calls : call[c].pc = "idle"
  /\ clock' = clock + d
  /\ ticks' = ticks + 1
  /\ UNCHANGED <<busStopsCache, busStopsCacheTime, upstream, call, lastGood,
                 completed>>
  /\ UNCHANGED sessionVars

\* the dataset grows or shrinks while the server runs
UpstreamChange(n) ==
  /\ n # upstream
  /\ \E c \in Calls : call[c].pc # "done"
  /\ upstream' = n
  /\ UNCHANGED <<busStopsCache, busStopsCacheTime, clock, ticks, call, lastGood,
                 completed>>
  /\ UNCHANGED sessionVars


\* ------------------------------------- session-routed SSE route ----
\* src/app/api/sse/route.ts, lines 225-388
Conns == 1..MaxConns
Posts == 1..MaxPosts

\* crypto.randomUUID() gives every connection an id of its own: connection k
\* has the id k. 0 is an id no connection was given, NoSessionId the absent
\* `sessionId` parameter.
NoSessionId == -1
SessionIds == Conns
SessionIdParams == {NoSessionId, 0} \cup SessionIds

\* what a POST body is: a request that gets a response, a notification
\* (handleMessage returns null), or text that is not JSON
Bodies == {"request", "notification", "malformed"}

NoConn ==
  [state |-> "none", timer |-> FALSE, aborted |-> FALSE, foundClosed |-> FALSE,
   cancelled |-> FALSE, frames |-> <<>>]
NoPost ==
  [pc |-> "idle", session |-> 0, body |-> "none", http |-> 0]

\* lines 312 and 319: sessions.delete(sessionId)
SessionsDelete_clear(sessionId) == << >>
SessionsDelete_toggle(sessionId) ==
  IF sessionId \in DOMAIN sessions
  THEN [s \in DOMAIN sessions \ {sessionId} |-> sessions[s]]
  ELSE [s \in DOMAIN sessions \cup {sessionId} |->
          IF s = sessionId THEN sessionId ELSE sessions[s]]
SessionsDelete(sessionId) ==
  [s \in DOMAIN sessions \ {sessionId} |-> sessions[s]]

\* line 297: sessions.set(sessionId, { controller, encoder })
SessionsSet_lost(sessionId, k) == sessions
SessionsSet_first(sessionId, k) ==
  [s \in DOMAIN sessions \cup {sessionId} |->
     IF s = sessionId THEN 1 ELSE sessions[s]]
SessionsSet(sessionId, k) ==
  [s \in DOMAIN sessions \cup {sessionId} |->
     IF s = sessionId THEN k ELSE sessions[s]]

IsHeartbeat(f) == f.event = "heartbeat"
\* heartbeat frames held by the live streams
Beats(k) == Len(SelectSeq(conn[k].frames, IsHeartbeat))
RECURSIVE SumBeats(_)
SumBeats(ks) ==
  IF ks = {} THEN 0
  ELSE LET k == CHOOSE x \in ks : TRUE IN Beats(k) + SumBeats(ks \ {k})

\* controller.enqueue throws once the stream was cancelled by its consumer
EnqueueThrows(k) == conn[k].cancelled

\* controller.enqueue(frame) on a stream that takes it: the frame goes to the
\* end of what the stream carries
Enqueue_twice(frames, f) == Append(Append(frames, f), f)
Enqueue_front(frames, f) == <<f>> \o frames
Enqueue(frames, f) == Append(frames, f)

\* lines 307-314: setInterval keeps the heartbeat timer armed after a tick;
\* the catch of a throwing emission clears it
TimerAfterBeat_once(threw) == FALSE
TimerAfterBeat_keep(threw) == TRUE
TimerAfterBeat(threw) == ~threw

\* lines 337-360: the status a POST is turned away with: 400 without a
\* sessionId, 404 when sessions.get(sessionId) is undefined, 0 when it is
\* not turned away
RejectStatus_swapped(sessionId) ==
  IF sessionId = NoSessionId THEN 404
  ELSE IF sessionId \notin DOMAIN sessions THEN 400
  ELSE 0
RejectStatus(sessionId) ==
  IF sessionId = NoSessionId THEN 400
  ELSE IF sessionId \notin DOMAIN sessions THEN 404
  ELSE 0

\* lines 299-304: the endpoint event; its URL carries the sessionId of the
\* connection
EndpointFrame_first(k) == [event |-> "endpoint", sessionId |-> 1]
EndpointFrame(k) == [event |-> "endpoint", sessionId |-> k]

\* lines 289-322: GET opens connection k; start(controller) runs at once:
\* the session is stored, the endpoint event carrying the session id is
\* enqueued, the heartbeat timer and the abort listener are set up.
\* Connections are numbered in the order they open.
GET(k) ==
  /\ conn[k].state = "none"
  /\ \A j \in Conns : j < k => conn[j].state # "none"
  /\ sessions' = SessionsSet(k, k)
  /\ conn' = [conn EXCEPT ![k] =
                [@ EXCEPT !.state = "open", !.timer = TRUE,
                          !.frames = <<EndpointFrame(k)>>]]
  /\ UNCHANGED post

\* lines 307-314: the heartbeat timer of connection k fires
Heartbeat(k) ==
  /\ conn[k].timer
  /\ IF EnqueueThrows(k)
     THEN /\ conn' = [conn EXCEPT ![k] =
                        [@ EXCEPT !.timer = TimerAfterBeat(TRUE),
                                  !.foundClosed = TRUE]]
          /\ sessions' = SessionsDelete(k)
     ELSE /\ SumBeats(Conns) < MaxBeats
          /\ conn' = [conn EXCEPT ![k] =
                        [@ EXCEPT !.timer = TimerAfterBeat(FALSE),
                                  !.frames = Enqueue(@, [event |-> "heartbeat"])]]
          /\ UNCHANGED sessions
  /\ UNCHANGED post

\* lines 317-320: the abort event of connection k's request
Abort(k) ==
  /\ conn[k].state = "open"
  /\ ~conn[k].aborted
  /\ conn' = [conn EXCEPT ![k] = [@ EXCEPT !.aborted = TRUE, !.timer = FALSE]]
  /\ sessions' = SessionsDelete(k)
  /\ UNCHANGED post

\* the consumer of connection k's stream cancels it (the client is gone): the
\* stream's queue is reset and it takes no further frame. `frames` is dropped
\* with it: every frame sequence the stream carried was a state before.
Cancel(k) ==
  /\ conn[k].state = "open"
  /\ ~conn[k].cancelled
  /\ conn' = [conn EXCEPT ![k] = [@ EXCEPT !.cancelled = TRUE, !.frames = <<>>]]
  /\ UNCHANGED <<sessions, post>>

\* lines 337-363: POST p arrives with `sessionId`: 400 without a sessionId,
\* 404 for an id that is not registered, else the session is looked up and
\* the body is read (the first await). POSTs are numbered in the order they
\* arrive.
POST(p, sessionId) ==
  /\ post[p].pc = "idle"
  /\ \A q \in Posts : q < p => post[q].pc # "idle"
  /\ IF RejectStatus(sessionId) # 0
     THEN post' = [post EXCEPT ![p] =
                     [@ EXCEPT !.pc = "done", !.http = RejectStatus(sessionId)]]
     ELSE post' = [post EXCEPT ![p] =
                     [@ EXCEPT !.pc = "processing",
                               !.session = sessions[sessionId]]]
  /\ UNCHANGED <<sessions, conn>>

\* lines 363-387: the body of POST p was read and handled; a response is
\* enqueued as a `message` event on the controller looked up at arrival, and
\* the POST is answered {success:true}, or 500 when anything threw
POST_respond(p, body) ==
  /\ post[p].pc = "processing"
  /\ LET k == post[p].session IN
     IF body = "malformed" \/ (body = "request" /\ EnqueueThrows(k))
     THEN /\ post' = [post EXCEPT ![p] =
                        [@ EXCEPT !.pc = "done", !.session = 0,
                                  !.body = body, !.http = 500]]
          /\ UNCHANGED conn
     ELSE /\ post' = [post EXCEPT ![p] =
                        [@ EXCEPT !.pc = "done", !.session = 0,
                                  !.body = body, !.http = 200]]
          /\ IF body = "request"
             THEN conn' = [conn EXCEPT ![k] =
                    [@ EXCEPT !.frames = Enqueue(@, [event |-> "message", post |-> p])]]
             ELSE UNCHANGED conn
  /\ UNCHANGED sessions

\* ------------------------------------------ stateless SSE route ----
\* src/unnamed/part_000, lines 372-407 (the same GET is at lines 684-726 of
\* src/app/api/sse/route.ts): no session, no registry
Streams == 1..MaxStreams

NoStream ==
  [state |-> "none", timer |-> FALSE, aborted |-> FALSE, foundClosed |-> FALSE,
   cancelled |-> FALSE, frames |-> <<>>]

\* controller.enqueue throws once the stream was cancelled by its consumer or
\* closed by controller.close()
EnqueueThrows_stateless(s) == stream[s].cancelled \/ stream[s].state = "closed"

\* periodic heartbeat frames stream s holds: all but the endpoint event and
\* the initial heartbeat
Beats_stateless(s) ==
  IF Len(stream[s].frames) > 2 THEN Len(stream[s].frames) - 2 ELSE 0

\* lines 375-393: GET opens stream s; start(controller) runs at once: the
\* endpoint event and the initial heartbeat are enqueued, the heartbeat timer
\* and the abort listener are set up. Streams are numbered in the order they
\* open.
GET_stateless(s) ==
  /\ stream[s].state = "none"
  /\ \A j \in Streams : j < s => stream[j].state # "none"
  /\ stream' = [stream EXCEPT ![s] =
                  [@ EXCEPT !.state = "open", !.timer = TRUE,
                            !.frames = <<[event |-> "endpoint"],
                                         [event |-> "heartbeat"]>>]]

\* lines 381-387: the heartbeat timer of stream s fires
Heartbeat_stateless(s) ==
  /\ stream[s].timer
  /\ IF EnqueueThrows_stateless(s)
     THEN stream' = [stream EXCEPT ![s] =
                       [@ EXCEPT !.timer = TimerAfterBeat(TRUE),
                                 !.foundClosed = TRUE]]
     ELSE /\ Beats_stateless(s) < MaxBeats
          /\ stream' = [stream EXCEPT ![s] =
                          [@ EXCEPT !.timer = TimerAfterBeat(FALSE),
                                    !.frames = Enqueue(@, [event |-> "heartbeat"])]]

\* lines 389-392: the abort event of stream s's request: the timer is
\* cleared and the controller closed (close throws on a cancelled stream,
\* which is closed already; the throw is caught)
Abort_stateless(s) ==
  /\ stream[s].state = "open"
  /\ ~stream[s].aborted
  /\ stream' = [stream EXCEPT ![s] =
                  [@ EXCEPT !.aborted = TRUE, !.timer = FALSE,
                            !.state = IF stream[s].cancelled THEN @ ELSE "closed"]]

\* the consumer of stream s cancels it (the client is gone); `frames` is
\* dropped as in Cancel
Cancel_stateless(s) ==
  /\ stream[s].state = "open"
  /\ ~stream[s].cancelled
  /\ stream' = [stream EXCEPT ![s] = [@ EXCEPT !.cancelled = TRUE, !.frames = <<>>]]

StatelessInit == stream = [s \in Streams |-> NoStream]

\* the connections of both routes, without POSTs
ConnNext ==
  \/ \E k \in Conns : GET(k) /\ UNCHANGED <<scan, cacheVars, stream, rpc>>
  \/ \E k \in Conns : Heartbeat(k) /\ UNCHANGED <<scan, cacheVars, stream, rpc>>
  \/ \E k \in Conns : Abort(k) /\ UNCHANGED <<scan, cacheVars, stream, rpc>>
  \/ \E k \in Conns : Cancel(k) /\ UNCHANGED <<scan, cacheVars, stream, rpc>>
  \/ \E s \in Streams : GET_stateless(s) /\ UNCHANGED <<scan, cacheVars, sessionVars, rpc>>
  \/ \E s \in Streams : Heartbeat_stateless(s) /\ UNCHANGED <<scan, cacheVars, sessionVars, rpc>>
  \/ \E s \in Streams : Abort_stateless(s) /\ UNCHANGED <<scan, cacheVars, sessionVars, rpc>>
  \/ \E s \in Streams : Cancel_stateless(s) /\ UNCHANGED <<scan, cacheVars, sessionVars, rpc>>

\* ------------------------------------------------ dispatcher ----
\* src/unnamed/part_000, lines 246-365 and 410-444 (the cached stateless
\* route) and src/app/api/sse/route.ts, lines 558-677 and 730-769 (the
\* uncached stateless route): tools, handleToolCall, handleMessage, POST
Rpcs == 1..MaxRpcs

\* the cached route's tool implementations catch their failures and return
\* a text; the uncached route's let them through
Variants == {"cached", "uncached"}

Undefined == "undefined"
JsonNull == "null"

\* lines 247-293: const tools
tools_three == {"get_bus_arrivals", "search_bus_stops", "get_bus_stop_info"}
tools ==
  {"get_bus_arrivals", "search_bus_stops", "get_bus_stop_info", "get_bus_routes"}

\* the tool names a tools/call names: the registered ones and one that is not
ToolNames == tools \cup {"no_such_tool"}
Methods == {"initialize", "initialized", "tools/list", "tools/call", "ping"}
Ids == {Undefined, "7"}
\* params: absent, or an object with a name; every tool name for a
\* tools/call, one for the methods that do not read params
ParamsValues(method) ==
  IF method = "tools/call"
  THEN {<<>>} \cup {<<n>> : n \in ToolNames}
  ELSE {<<>>, <<"get_bus_arrivals">>}

\* what a POST body is: text that is not JSON, the JSON value null, a JSON
\* value that is no object (a number, say), or an object. Destructuring
\* `const { method, id, params } = message` gives undefined members for a
\* value that is no object and throws for null.
PostBodies ==
  {[kind |-> k, method |-> Undefined, id |-> Undefined, params |-> <<>>] :
     k \in {"malformed", "null", "scalar"}}
  \cup UNION {{[kind |-> "object", method |-> m, id |-> i, params |-> q] :
                  i \in Ids, q \in ParamsValues(m)} : m \in Methods}

\* how the upstream LTA API answers the requests of a tool: with a success
\* status or without
UpOutcomes == {"ok", "fail"}

\* the tool a message makes run, "none" when it makes none run
ToolRun(message) ==
  IF /\ message.kind \in {"object", "scalar"}
     /\ message.method = "tools/call"
     /\ message.params # <<>>
     /\ message.params[1] \in tools
  THEN message.params[1]
  ELSE "none"

\* the bus stop codes a get_bus_arrivals call names
BusStopCodes == {"83139", "01012"}

\* how the upstream answers a BusArrival request: as in UpOutcomes, or with a
\* success status and an empty Services array, or with a success status and
\* no Services member
ArrivalOutcomes == UpOutcomes \cup {"empty", "missing"}

\* line 97: !data.Services || data.Services.length === 0
NoServices_emptyOnly(up) == up = "empty"
NoServices(up) == up \in {"empty", "missing"}

\* lines 80-125: getBusArrivals(busStopCode), with the upstream answering
\* `up`: the text it returns, or the error it throws
getBusArrivals(variant, busStopCode, up) ==
  IF up = "fail" /\ variant = "uncached"
  THEN [threw |-> TRUE, text |-> <<"LTA API error">>]
  ELSE IF up # "fail" /\ NoServices(up)
  THEN [threw |-> FALSE,
        text |-> <<"No bus services found at bus stop ", busStopCode,
                   ". Please check if the bus stop code is correct.">>]
  ELSE [threw |-> FALSE, text |-> <<"text of ", "get_bus_arrivals", up>>]

\* args.bus_stop_code of the params of a tools/call; undefined when the
\* arguments have no such member
BusStopCodeOf(params) == IF Len(params) > 1 THEN params[2] ELSE Undefined

\* lines 296-309: handleToolCall(name, args), with the upstream answering
\* `up`: the text it returns, or the error it throws
handleToolCall_throws(variant, name, args, up) ==
  [threw |-> TRUE, text |-> <<"Unknown tool: ", name>>]
handleToolCall(variant, name, args, up) ==
  IF name \notin tools
  THEN [threw |-> FALSE, text |-> <<"Unknown tool: ", name>>]
  ELSE IF name = "get_bus_arrivals"
  THEN getBusArrivals(variant, args, up)
  ELSE IF up = "fail" /\ variant = "uncached"
  THEN [threw |-> TRUE, text |-> <<"LTA API error">>]
  ELSE [threw |-> FALSE, text |-> <<"text of ", name, up>>]

\* lines 319-324: the result of initialize
InitializeResult_old ==
  [protocolVersion |-> "2024-10-07",
   capabilities |-> [tools |-> << >>],
   serverInfo |-> [name |-> "sg-bus-mcp", version |-> "1.0.0"]]
InitializeResult ==
  [protocolVersion |-> "2024-11-05",
   capabilities |-> [tools |-> << >>],
   serverInfo |-> [name |-> "sg-bus-mcp", version |-> "1.0.0"]]

\* lines 358-364: the error of the default case
MethodNotFound_asHandler(method) ==
  [code |-> -32000, message |-> <<"Method not found: ", method>>]
MethodNotFound(method) ==
  [code |-> -32601, message |-> <<"Method not found: ", method>>]

\* lines 312-365: handleMessage(message): null or the response envelope
handleMessage_needsInit(variant, message, up) ==
  IF \E q \in Rpcs :
       rpc[q].pc = "done" /\ rpc[q].message[1].method = "initialize"
  THEN Some([jsonrpc |-> "2.0", id |-> message.id,
             result |-> [tools |-> tools]])
  ELSE Some([jsonrpc |-> "2.0", id |-> message.id,
             error |-> [code |-> -32002,
                        message |-> <<"Server not initialized">>]])
handleMessage(variant, message, up) ==
  LET method == message.method
      id == message.id
      params == message.params
  IN
  CASE method = "initialize" ->
         Some([jsonrpc |-> "2.0", id |-> id, result |-> InitializeResult])
    [] method = "initialized" -> Null
    [] method = "tools/list" ->
         Some([jsonrpc |-> "2.0", id |-> id, result |-> [tools |-> tools]])
    [] method = "tools/call" ->
         IF params = <<>>
         THEN Some([jsonrpc |-> "2.0", id |-> id,
                    error |-> [code |-> -32000, message |-> <<"TypeError">>]])
         ELSE LET r == handleToolCall(variant, params[1],
                                      BusStopCodeOf(params), up) IN
              IF r.threw
              THEN Some([jsonrpc |-> "2.0", id |-> id,
                         error |-> [code |-> -32000, message |-> r.text]])
              ELSE Some([jsonrpc |-> "2.0", id |-> id,
                         result |-> [content |->
                                       <<[type |-> "text", text |-> r.text]>>]])
    [] OTHER ->
         Some([jsonrpc |-> "2.0", id |-> id, error |-> MethodNotFound(method)])

\* JSON.stringify leaves out a member whose value is undefined
Stringify_noId(envelope) ==
  [m \in DOMAIN envelope \ {"id"} |-> envelope[m]]
Stringify(envelope) ==
  IF envelope.id = Undefined
  THEN [m \in DOMAIN envelope \ {"id"} |-> envelope[m]]
  ELSE envelope

\* lines 410-444: the HTTP response of a POST with this body
Respond_ack(variant, body, up) == [http |-> 200, body |-> [success |-> TRUE]]
Respond(variant, body, up) ==
  IF body.kind \in {"malformed", "null"}
  THEN [http |-> 200,
        body |-> [jsonrpc |-> "2.0",
                  error |-> [code |-> -32000,
                             message |-> IF body.kind = "malformed"
                                         THEN <<"SyntaxError">>
                                         ELSE <<"TypeError">>],
                  id |-> JsonNull]]
  ELSE LET response == handleMessage(variant, body, up) IN
       IF response # Null
       THEN [http |-> 200, body |-> Stringify(Value(response))]
       ELSE [http |-> 200, body |-> [success |-> TRUE]]

NoRpc ==
  [pc |-> "idle", variant |-> "none", message |-> <<>>, up |-> "none",
   ran |-> "none", response |-> <<>>]

\* lines 410-412: POST r arrives on the route `variant` runs and its body is
\* read. One variant of the route runs in a process.
POST_stateless(r, variant, body) ==
  /\ rpc[r].pc = "idle"
  /\ \A q \in Rpcs : q < r => rpc[q].pc # "idle"
  /\ \A q \in Rpcs : rpc[q].pc # "idle" => rpc[q].variant = variant
  /\ rpc' = [rpc EXCEPT ![r] =
               [@ EXCEPT !.pc = "handling", !.variant = variant,
                         !.message = <<body>>]]

\* lines 412-443: the body of POST r is handled, the upstream answering the
\* tool it makes run with `up`, and the POST is answered
POST_stateless_respond(r, up) ==
  /\ rpc[r].pc = "handling"
  /\ LET body == rpc[r].message[1] IN
     rpc' = [rpc EXCEPT ![r] =
               [@ EXCEPT !.pc = "done",
                         !.ran = ToolRun(body),
                         !.up = IF ToolRun(body) = "none" THEN "none" ELSE up,
                         !.response =
                           <<Respond(rpc[r].variant, body, up)>>]]

DispatchInit == rpc = [r \in Rpcs |-> NoRpc]

DispatchNext ==
  \/ \E r \in Rpcs, v \in Variants, b \in PostBodies :
       POST_stateless(r, v, b) /\ UNCHANGED <<scan, cacheVars, sessionVars, stream>>
  \/ \E r \in Rpcs, up \in UpOutcomes :
       POST_stateless_respond(r, up) /\ UNCHANGED <<scan, cacheVars, sessionVars, stream>>

\* ---------------------------------------------------- paged scans ----
\* src/app/api/sse/route.ts, lines 81-89 (searchBusStops), 109-117
\* (getBusStopInfo) and 130-140 (getBusRoutes): the tools of the uncached
\* routes page through the upstream on every call; src/unnamed/part_000,
\* lines 179-200: getBusRoutes of the cached route does so too
ScanTools == {"search_bus_stops", "get_bus_stop_info", "get_bus_routes"}

\* an upstream dataset: `full` pages of PAGE_SIZE records, then one page of
\* `last` records (short or empty), then nothing; `hits` are the pages (by
\* number, from 1) that hold records of the requested service
LastLens == {0, 1}
HitSets(n) ==
  {H \in SUBSET (1..n) : Cardinality(H) <= MaxHitPages}
Datasets ==
  UNION {{[full |-> n, last |-> l, hits |-> H] :
            H \in HitSets(IF l > 0 THEN n + 1 ELSE n)} :
         <<n, l>> \in (0..MaxFullPages) \X LastLens}

PageNo(skip) == (skip \div PAGE_SIZE) + 1

\* the answer to `?$skip=skip` over dataset d
PageAt(d, skip) ==
  [skip |-> skip,
   len  |-> IF PageNo(skip) <= d.full THEN PAGE_SIZE
            ELSE IF PageNo(skip) = d.full + 1 THEN d.last ELSE 0,
   hits |-> PageNo(skip) \in d.hits]

\* the loop conditions: while (skip < 6000), while (skip < 5000), while (true)
ScanContinues(variant, tool, skip) ==
  IF variant = "cached" THEN TRUE
  ELSE IF tool = "get_bus_routes" THEN skip < BUS_ROUTES_MAX
  ELSE skip < BUS_STOPS_MAX

\* the break after skip += 500. Uncached getBusRoutes (line 139):
\* allRoutes.length > 0 && serviceRoutes.length === 0; cached getBusRoutes
\* (part_000 line 199): data.value.length < 500; the bus stop scans have none
BreakAfterPage(variant, tool, page, allRoutes) ==
  IF tool # "get_bus_routes" THEN FALSE
  ELSE IF variant = "cached" THEN ShortPage(page)
  ELSE allRoutes # {} /\ ~page.hits

NoScan ==
  [pc |-> "idle", variant |-> "none", tool |-> "none", data |-> <<>>,
   skip |-> 0, requested |-> <<>>, received |-> <<>>, allRoutes |-> {},
   outcome |-> "none"]

\* a tool is called over dataset d: skip = 0 passes the loop condition and
\* the first page is requested. The cached route scans in getBusRoutes only.
toolCall(variant, tool, d) ==
  /\ scan.pc = "idle"
  /\ variant = "cached" => tool = "get_bus_routes"
  /\ tool # "get_bus_routes" => d.hits = {}
  /\ scan' = [scan EXCEPT !.pc = "scanning", !.variant = variant,
                          !.tool = tool, !.data = d, !.requested = <<0>>]

\* the page request in flight is answered with a success status: one turn
\* of the loop body, up to the next request or the end of the loop
makeLtaRequest_ok ==
  /\ scan.pc = "scanning"
  /\ LET page == PageAt(scan.data, scan.skip)
         seen == Append(scan.received, page)
         all  == IF page.hits THEN scan.allRoutes \cup {PageNo(scan.skip)}
                 ELSE scan.allRoutes
         skip2 == scan.skip + PAGE_SIZE
     IN IF EmptyPage(page)
        THEN scan' = [scan EXCEPT !.pc = "done", !.received = seen,
                                  !.outcome = "returned"]
        ELSE IF \/ BreakAfterPage(scan.variant, scan.tool, page, all)
                \/ ~ScanContinues(scan.variant, scan.tool, skip2)
        THEN scan' = [scan EXCEPT !.pc = "done", !.received = seen,
                                  !.allRoutes = all, !.skip = skip2,
                                  !.outcome = "returned"]
        ELSE scan' = [scan EXCEPT !.received = seen, !.allRoutes = all,
                                  !.skip = skip2,
                                  !.requested = Append(@, skip2)]

\* the page request in flight is answered with a non-success status:
\* makeLtaRequest throws and the scan ends
makeLtaRequest_fail ==
  /\ scan.pc = "scanning"
  /\ scan' = [scan EXCEPT !.pc = "done", !.outcome = "threw"]

ScanInit == scan = NoScan

ScanNext ==
  \/ \E v \in Variants, t \in ScanTools, d \in Datasets :
       toolCall(v, t, d) /\ UNCHANGED <<cacheVars, sessionVars, stream, rpc>>
  \/ makeLtaRequest_ok /\ UNCHANGED <<cacheVars, sessionVars, stream, rpc>>
  \/ makeLtaRequest_fail /\ UNCHANGED <<cacheVars, sessionVars, stream, rpc>>

SessionInit ==
  /\ sessions = << >>
  /\ conn = [k \in Conns |-> NoConn]
  /\ post = [p \in Posts |-> NoPost]

SessionNext ==
  \/ \E k \in Conns : GET(k) /\ UNCHANGED <<scan, cacheVars, stream, rpc>>
  \/ \E k \in Conns : Heartbeat(k) /\ UNCHANGED <<scan, cacheVars, stream, rpc>>
  \/ \E k \in Conns : Abort(k) /\ UNCHANGED <<scan, cacheVars, stream, rpc>>
  \/ \E k \in Conns : Cancel(k) /\ UNCHANGED <<scan, cacheVars, stream, rpc>>
  \/ \E p \in Posts, s \in SessionIdParams : POST(p, s) /\ UNCHANGED <<scan, cacheVars, stream, rpc>>
  \/ \E p \in Posts, b \in Bodies : POST_respond(p, b) /\ UNCHANGED <<scan, cacheVars, stream, rpc>>

\* ------------------------------------------------------ specification ----
CacheInit ==
  /\ busStopsCache = Null
  /\ busStopsCacheTime = 0
  /\ clock = 0
  /\ ticks = 0
  /\ upstream = 0
  /\ call = [c \in Calls |-> IdleCall]
  /\ lastGood = Null
  /\ completed = {}

Init == CacheInit /\ SessionInit /\ StatelessInit /\ DispatchInit /\ ScanInit

Next ==
  \/ \E c \in Calls : getBusStops(c) /\ UNCHANGED <<stream, rpc, scan>>
  \/ \E c \in Calls : fetchAllBusStops_ok(c) /\ UNCHANGED <<stream, rpc, scan>>
  \/ \E c \in Calls : fetchAllBusStops_fail(c) /\ UNCHANGED <<stream, rpc, scan>>
  \/ \E d \in TickSteps : Tick(d) /\ UNCHANGED <<stream, rpc, scan>>
  \/ \E n \in UpSizes : UpstreamChange(n) /\ UNCHANGED <<stream, rpc, scan>>

\* the cached dataset under concurrent getBusStops calls
Spec == Init /\ [][Next]_vars

\* the session-routed route under concurrent connections and POSTs
SessionSpec == Init /\ [][SessionNext]_vars

\* one variant of the SSE route runs in a process: the session-routed one
\* or the stateless one
SseNext ==
  \/ (\A s \in Streams : stream[s].state = "none") /\ SessionNext
  \/ /\ \A k \in Conns : conn[k].state = "none"
     /\ \A p \in Posts : post[p].pc = "idle"
     /\ \/ \E s \in Streams : GET_stateless(s) /\ UNCHANGED <<scan, cacheVars, sessionVars, rpc>>
        \/ \E s \in Streams : Heartbeat_stateless(s) /\ UNCHANGED <<scan, cacheVars, sessionVars, rpc>>
        \/ \E s \in Streams : Abort_stateless(s) /\ UNCHANGED <<scan, cacheVars, sessionVars, rpc>>
        \/ \E s \in Streams : Cancel_stateless(s) /\ UNCHANGED <<scan, cacheVars, sessionVars, rpc>>

SseSpec == Init /\ [][SseNext]_vars

\* the POSTs of the stateless routes, through the dispatcher
DispatchSpec == Init /\ [][DispatchNext]_vars

\* tools/call requests of get_bus_arrivals, each with a bus stop code
ArrivalCalls ==
  {[kind |-> "object", method |-> "tools/call", id |-> i,
    params |-> <<"get_bus_arrivals", c>>] : i \in Ids, c \in BusStopCodes}

\* get_bus_arrivals through the stateless POST, under every answer of the
\* upstream
ArrivalNext ==
  \/ \E r \in Rpcs, v \in Variants, b \in ArrivalCalls :
       POST_stateless(r, v, b) /\ UNCHANGED <<scan, cacheVars, sessionVars, stream>>
  \/ \E r \in Rpcs, up \in ArrivalOutcomes :
       POST_stateless_respond(r, up) /\ UNCHANGED <<scan, cacheVars, sessionVars, stream>>

ArrivalSpec == Init /\ [][ArrivalNext]_vars

\* the bodies POSTed while SSE streams are open: a request, a tool call, a
\* notification and text that is not JSON
StatelessBodies ==
  {b \in PostBodies :
     \/ b.kind = "malformed"
     \/ /\ b.kind = "object" /\ b.params = <<"get_bus_arrivals">>
        /\ \/ b.method = "tools/call" /\ b.id = "7"
           \/ b.method = "tools/list" /\ b.id = "7"
           \/ b.method = "initialized" /\ b.id = Undefined}

\* the stateless route as a whole: its SSE streams and its POSTs
StatelessNext ==
  \/ \E s \in Streams : GET_stateless(s) /\ UNCHANGED <<scan, cacheVars, sessionVars, rpc>>
  \/ \E s \in Streams : Heartbeat_stateless(s) /\ UNCHANGED <<scan, cacheVars, sessionVars, rpc>>
  \/ \E s \in Streams : Abort_stateless(s) /\ UNCHANGED <<scan, cacheVars, sessionVars, rpc>>
  \/ \E s \in Streams : Cancel_stateless(s) /\ UNCHANGED <<scan, cacheVars, sessionVars, rpc>>
  \/ \E r \in Rpcs, v \in Variants, b \in StatelessBodies :
       POST_stateless(r, v, b) /\ UNCHANGED <<scan, cacheVars, sessionVars, stream>>
  \/ \E r \in Rpcs, up \in UpOutcomes :
       POST_stateless_respond(r, up) /\ UNCHANGED <<scan, cacheVars, sessionVars, stream>>

StatelessSpec == Init /\ [][StatelessNext]_vars

\* one tool call that pages through the upstream
ScanSpec == Init /\ [][ScanNext]_vars

\* the SSE connections of both routes
ConnSpec == Init /\ [][ConnNext]_vars

\* setInterval fires the callback of a timer that is armed again and again
FairConnSpec ==
  /\ Init /\ [][ConnNext]_vars
  /\ \A k \in Conns :
       WF_vars(Heartbeat(k) /\ UNCHANGED <<scan, cacheVars, stream, rpc>>)
  /\ \A s \in Streams :
       WF_vars(Heartbeat_stateless(s) /\ UNCHANGED <<scan, cacheVars, sessionVars, rpc>>)

\* "each upstream page request eventually completes": a request in flight is
\* answered, with a success status or without
FairSpec ==
  /\ Init /\ [][Next]_vars
  /\ \A c \in Calls :
       WF_vars((fetchAllBusStops_ok(c) \/ fetchAllBusStops_fail(c))
                 /\ UNCHANGED <<stream, rpc, scan>>)

\* ------------------------------------------------------------ claims ----
Fetching(c) == call[c].pc = "fetching"
Done(c) == call[c].pc = "done"
\* offsets 0, PAGE_SIZE, 2 * PAGE_SIZE, ... in this order
InOffsetOrder(reqs) == \A i \in 1..Len(reqs) : reqs[i] = (i - 1) * PAGE_SIZE
NonEmptyChunk(p) == p.len > 0

\* C1: at any moment at most one refresh (one fetchAllBusStops run) is in
\* flight: a getBusStops call that arrives during a refresh never starts a
\* second page-fetch sequence.
C1_AtMostOneRefreshInFlight ==
  Cardinality({c \in Calls : Fetching(c)}) <= 1

\* C2: getBusStops calls that overlap while the cache is cold execute exactly
\* one refresh sequence between them and all receive the same payload.
C2_ColdCallersShareOneRefresh ==
  \A c1, c2 \in Calls :
    (/\ c1 \in call[c2].overlapped
     /\ call[c1].cold /\ call[c2].cold
     /\ Done(c1) /\ Done(c2))
    => /\ call[c1].result = call[c2].result
       /\ ~(call[c1].requested # <<>> /\ call[c2].requested # <<>>)

\* C3: when a refresh fails after an earlier refresh succeeded, getBusStops
\* returns exactly the payload of the last successful refresh.
C3_StaleOnFailure ==
  [][\A c \in Calls :
       (Fetching(c) /\ call'[c].outcome = "failed" /\ lastGood # Null)
       => (call'[c].status = "returned" /\ call'[c].result = Value(lastGood))]_vars

C3_Witness ==
  \E c \in Calls : call[c].outcome = "failed" /\ call[c].result # <<>>

\* C4: when a refresh fails and nothing was ever cached, getBusStops
\* propagates an upstream error to its caller instead of returning a dataset.
C4_ErrorWhenNothingCached ==
  [][\A c \in Calls :
       (Fetching(c) /\ call'[c].outcome = "failed" /\ busStopsCache = Null)
       => call'[c].status = "threw"]_vars

\* C5: getBusStops returns the cached payload without any upstream page
\* request if and only if a payload is cached and now - fetchedAt < ttl;
\* otherwise (nothing cached, or now - fetchedAt >= ttl) it starts a refresh.
C5_CachedIffFresh ==
  [][\A c \in Calls :
       (call[c].pc = "idle" /\ call'[c].pc # "idle")
       => IF busStopsCache # Null
             /\ clock - busStopsCacheTime < CACHE_DURATION
          THEN /\ call'[c].pc = "done"
               /\ call'[c].status = "returned"
               /\ call'[c].result = Value(busStopsCache)
               /\ call'[c].requested = <<>>
          ELSE /\ call'[c].pc = "fetching"
               /\ call'[c].requested = <<0>>]_vars

\* a call that found a payload cached exactly ttl old and started a refresh
C5_Witness ==
  \E c \in Calls :
    /\ Fetching(c) /\ ~call[c].cold
    /\ busStopsCache # Null
    /\ call[c].now - busStopsCacheTime = CACHE_DURATION

\* C6: in every reachable state the cached payload is absent or the complete
\* result of one refresh that ran to its stopping page, never the pages a
\* refresh in progress or a failed refresh has accumulated.
C6_CacheIsCompleteSnapshot ==
  busStopsCache = Null \/ Value(busStopsCache) \in completed

\* a multi-page payload is cached while another refresh is part-way
C6_Witness ==
  /\ busStopsCache # Null /\ Len(Value(busStopsCache)) >= 2
  /\ \E c \in Calls : Fetching(c) /\ Len(call[c].allStops) >= 1

\* C7: a successful refresh requests offsets 0, 500, 1000, ... in this order
\* and returns the concatenation, in offset order, of every page up to and
\* including the first page with fewer than 500 records (an empty stopping
\* page adds nothing); no page after the stopping page is requested.
C7_RefreshPagesInOrder ==
  \A c \in Calls :
    /\ InOffsetOrder(call[c].requested)
    /\ \A i \in 1..Len(call[c].received) :
         call[c].received[i].skip = call[c].requested[i]
    /\ Fetching(c) =>
         /\ Len(call[c].requested) = Len(call[c].received) + 1
         /\ \A i \in 1..Len(call[c].received) :
              ~(call[c].received[i].len < PAGE_SIZE)
    /\ call[c].outcome = "refreshed" =>
         LET n == Len(call[c].received) IN
         /\ n >= 1 /\ Len(call[c].requested) = n
         /\ \A i \in 1..(n - 1) : ~(call[c].received[i].len < PAGE_SIZE)
         /\ call[c].received[n].len < PAGE_SIZE
         /\ call[c].result = SelectSeq(call[c].received, NonEmptyChunk)

C7_Witness ==
  \E c \in Calls :
    call[c].outcome = "refreshed" /\ Len(call[c].requested) >= 3

\* C8: a page request answered with a non-success status aborts the refresh:
\* no further page of that refresh is requested and none of the pages it had
\* accumulated is written to the cache.
C8_FailureAbortsRefresh ==
  [][\A c \in Calls :
       /\ call'[c].outcome = "failed" =>
            (call'[c].pc = "done" /\ call'[c].requested = call[c].requested)
       /\ (Fetching(c) /\ call'[c].outcome = "failed") =>
            /\ busStopsCache' = busStopsCache
            /\ busStopsCacheTime' = busStopsCacheTime]_vars

\* a refresh failed after it had accumulated a page
C8_Witness ==
  \E c \in Calls :
    call[c].outcome = "failed" /\ Len(call[c].received) >= 1

TornDown(k) == conn[k].aborted \/ conn[k].foundClosed

\* C10: a session id is in the registry from the moment its SSE connection
\* is opened until that connection aborts or its heartbeat finds the channel
\* closed, and is absent afterwards; the step that removes it is that
\* connection's own cleanup, never a POST or another connection's cleanup.
C10_SessionLifetime ==
  /\ [](\A k \in Conns :
         /\ k \in DOMAIN sessions <=> (conn[k].state = "open" /\ ~TornDown(k))
         /\ k \in DOMAIN sessions => sessions[k] = k)
  /\ [][\A k \in Conns :
          (k \in DOMAIN sessions /\ k \notin DOMAIN sessions')
          => /\ ~TornDown(k) /\ TornDown(k)'
             /\ post' = post
             /\ \A j \in Conns \ {k} : conn'[j] = conn[j]]_vars

\* one connection was torn down and is gone from the registry, another is
\* still registered, and a POST was served meanwhile
C10_Witness ==
  \E k, j \in Conns :
    /\ TornDown(k) /\ k \notin DOMAIN sessions
    /\ j \in DOMAIN sessions
    /\ \E p \in Posts : post[p].pc = "done" /\ post[p].http = 200

\* connection k's teardown code (clearInterval, sessions.delete) runs on this step
TeardownStep(k) ==
  \/ ~conn[k].aborted /\ conn'[k].aborted
  \/ ~conn[k].foundClosed /\ conn'[k].foundClosed

\* C11: removing a session is idempotent. A teardown that removes an id the
\* registry does not hold (removed before by the other teardown path) leaves
\* the registry as it was; a teardown that removes a registered id takes out
\* this id alone and leaves every other entry as it was. Neither raises an
\* error: the step completes.
C11_RemoveIdempotent ==
  [][\A k \in Conns :
       TeardownStep(k) =>
         /\ k \notin DOMAIN sessions => sessions' = sessions
         /\ DOMAIN sessions' = DOMAIN sessions \ {k}
         /\ \A j \in DOMAIN sessions' : sessions'[j] = sessions[j]]_vars

\* the session of a connection was removed twice (the heartbeat found the
\* stream closed, then the abort event fired) while another is registered
C11_Witness ==
  \E k \in Conns :
    /\ conn[k].foundClosed /\ conn[k].aborted
    /\ \E j \in DOMAIN sessions : j # k

\* C12: a POST without a sessionId is answered 400 and a POST whose sessionId
\* is not registered 404, on the step it arrives, before any processing: its
\* body is never read or dispatched, and no frame is emitted, no registry
\* entry and no cache or upstream state changes.
C12_RejectedBeforeDispatch ==
  /\ [](\A p \in Posts :
          post[p].http \in {400, 404} =>
            post[p].pc = "done" /\ post[p].body = "none")
  /\ [][\A p \in Posts, s \in SessionIdParams :
          POST(p, s) =>
            /\ s = NoSessionId => post'[p].http = 400
            /\ s # NoSessionId /\ s \notin DOMAIN sessions => post'[p].http = 404
            /\ s \in DOMAIN sessions => post'[p].http = 0
            /\ post'[p].http \in {400, 404} =>
                 /\ post[p].pc = "idle" /\ post'[p].pc = "done"
                 /\ conn' = conn /\ sessions' = sessions
                 /\ cacheVars' = cacheVars]_vars

\* both rejections happened, the 404 for the id of a session that was removed
C12_Witness ==
  /\ \E p \in Posts : post[p].http = 400
  /\ \E p \in Posts : post[p].http = 404
  /\ \E k \in Conns : conn[k].aborted

\* POST p finishes on this step: its body was read and handled
Completes(p) == post[p].pc = "processing" /\ post'[p].pc = "done"
\* the `message` frames that carry the response to POST p, as <<connection, position>>
MessageFramesOf(p) ==
  {ki \in UNION {{<<k, i>> : i \in DOMAIN conn[k].frames} : k \in Conns} :
     /\ conn[ki[1]].frames[ki[2]].event = "message"
     /\ conn[ki[1]].frames[ki[2]].post = p}

C14_MessagesInCompletionOrder ==
  [][\A k \in Conns :
       /\ conn[k].state = "open"
       /\ conn'[k].cancelled = conn[k].cancelled
       /\ conn'[k].frames # conn[k].frames
       => /\ Len(conn'[k].frames) = Len(conn[k].frames) + 1
          /\ SubSeq(conn'[k].frames, 1, Len(conn[k].frames)) = conn[k].frames
          /\ \A p \in Posts :
               Completes(p) /\ post[p].session = k /\ post'[p].http = 200
                            /\ post'[p].body = "request"
               => conn'[k].frames[Len(conn'[k].frames)] =
                    [event |-> "message", post |-> p]]_vars

\* a later POST overtook an earlier one on the same session: the response to
\* POST 2 is on the channel before the response to POST 1
C14_Witness ==
  \E k \in Conns : \E i, j \in DOMAIN conn[k].frames :
    /\ i < j
    /\ conn[k].frames[i] = [event |-> "message", post |-> 2]
    /\ conn[k].frames[j] = [event |-> "message", post |-> 1]

\* C15: when the connection of a session aborts while a POST for the session
\* is being processed (the session was registered when the POST looked it
\* up), the POST still finishes and the delivery of its result raises no
\* fault: the POST is acknowledged, not answered with an error status.
C15_AbortedDeliveryIsNoOp ==
  [][\A p \in Posts :
       /\ Completes(p)
       /\ post'[p].body # "malformed"
       /\ conn[post[p].session].aborted
       => post'[p].http = 200]_vars

\* C16: once the abort event of a connection fired, its session id is not in
\* the registry and no further frame is emitted on its channel.
C16_NoFrameAfterAbort ==
  /\ [](\A k \in Conns : conn[k].aborted => k \notin DOMAIN sessions)
  /\ [][\A k \in Conns :
          conn[k].aborted => Len(conn'[k].frames) <= Len(conn[k].frames)]_vars

\* the abort event has not fired and emission does not fail
Live(k) == conn[k].state = "open" /\ ~conn[k].aborted /\ ~conn[k].cancelled
Live_stateless(s) ==
  stream[s].state = "open" /\ ~stream[s].aborted /\ ~stream[s].cancelled

\* a connection that has heartbeats left to emit in this behaviour
Owes(k) == Live(k) /\ SumBeats(Conns) < MaxBeats
Owes_stateless(s) == Live_stateless(s) /\ Beats_stateless(s) < MaxBeats

C18_TeardownOnce ==
  [][\A k \in Conns : TeardownStep(k) => ~TornDown(k)]_vars

\* C19: on the abort event of a connection, on either route, the heartbeat
\* timer is cancelled, the stream is closed and, where there is a session,
\* the session is removed from the registry.
C19_AbortTearsDownAll ==
  /\ \A k \in Conns :
       conn[k].aborted =>
         /\ ~conn[k].timer
         /\ conn[k].state = "closed" \/ conn[k].cancelled
         /\ k \notin DOMAIN sessions
  /\ \A s \in Streams :
       stream[s].aborted =>
         /\ ~stream[s].timer
         /\ stream[s].state = "closed" \/ stream[s].cancelled

\* C20: when a heartbeat emission fails because the client is gone, the
\* heartbeat timer is cancelled and stays so (no later tick emits), and on the
\* session-routed route the session is removed from the registry.
C20_FailedHeartbeatStopsTimer ==
  /\ [](\A k \in Conns :
          conn[k].foundClosed => ~conn[k].timer /\ k \notin DOMAIN sessions)
  /\ [](\A s \in Streams : stream[s].foundClosed => ~stream[s].timer)
  /\ [][/\ \A k \in Conns :
             ~conn[k].foundClosed /\ conn'[k].foundClosed =>
               /\ conn[k].timer /\ conn[k].cancelled
               /\ conn'[k].frames = conn[k].frames
               /\ DOMAIN sessions' = DOMAIN sessions \ {k}
        /\ \A s \in Streams :
             ~stream[s].foundClosed /\ stream'[s].foundClosed =>
               /\ stream[s].timer /\ stream[s].cancelled
               /\ stream'[s].frames = stream[s].frames]_vars

\* a heartbeat emission failed on a connection of each route, the one of the
\* session-routed route while its session was registered
C20_Witness ==
  /\ \E k \in Conns : conn[k].foundClosed /\ ~conn[k].aborted
  /\ \E s \in Streams : stream[s].foundClosed

\* C21: on every SSE connection the first frame is the endpoint event, there
\* is no second one, so it precedes every heartbeat and every message frame;
\* it is emitted when the connection opens; on the session-routed route it
\* carries the session id of its own connection.
C21_EndpointFirstAndOnce ==
  /\ \A k \in Conns :
       /\ conn[k].state = "open" /\ ~conn[k].cancelled => conn[k].frames # <<>>
       /\ conn[k].frames # <<>> =>
            /\ conn[k].frames[1] = [event |-> "endpoint", sessionId |-> k]
            /\ \A i \in 2..Len(conn[k].frames) :
                 conn[k].frames[i].event # "endpoint"
  /\ \A s \in Streams :
       /\ stream[s].state = "open" /\ ~stream[s].cancelled => stream[s].frames # <<>>
       /\ stream[s].frames # <<>> =>
            /\ stream[s].frames[1].event = "endpoint"
            /\ \A i \in 2..Len(stream[s].frames) :
                 stream[s].frames[i].event # "endpoint"

\* the second connection carries a heartbeat and a message after its endpoint event
C21_Witness ==
  /\ Len(conn[2].frames) >= 3
  /\ \E i \in DOMAIN conn[2].frames : conn[2].frames[i].event = "heartbeat"
  /\ \E i \in DOMAIN conn[2].frames : conn[2].frames[i].event = "message"

\* C22: on every route the frame right after the endpoint event is a
\* heartbeat, emitted when the connection opens.
C22_InitialHeartbeat ==
  /\ \A k \in Conns :
       conn[k].frames # <<>> =>
         Len(conn[k].frames) >= 2 /\ conn[k].frames[2].event = "heartbeat"
  /\ \A s \in Streams :
       stream[s].frames # <<>> =>
         Len(stream[s].frames) >= 2 /\ stream[s].frames[2].event = "heartbeat"

\* POST r to the stateless route was answered
Answered(r) == rpc[r].pc = "done"
\* the JSON-RPC message POST r carried, and the body of the HTTP answer
MessageOf(r) == rpc[r].message[1]
AnswerOf(r) == rpc[r].response[1].body
\* the answer carries the id of the request (no id when the request has none)
CarriesId(r) ==
  IF MessageOf(r).id = Undefined
  THEN "id" \notin DOMAIN AnswerOf(r)
  ELSE "id" \in DOMAIN AnswerOf(r) /\ AnswerOf(r).id = MessageOf(r).id

\* C23: a request without an id never produces a response, whatever its
\* method: the dispatcher returns nothing and the POST is only acknowledged.
C23_NotificationsGetNoResponse ==
  \A r \in Rpcs :
    Answered(r) /\ MessageOf(r).kind = "object" /\ MessageOf(r).id = Undefined
    => DOMAIN AnswerOf(r) = {"success"}

\* C24: an initialize request is answered with a result, never an error, with
\* protocolVersion "2024-11-05", a tools capability, the server identity and
\* the id of the request, for any params and after any earlier request.
C24_InitializeSucceeds ==
  \A r \in Rpcs :
    Answered(r) /\ MessageOf(r).kind = "object"
                /\ MessageOf(r).method = "initialize"
    => /\ rpc[r].response[1].http = 200
       /\ "result" \in DOMAIN AnswerOf(r)
       /\ "error" \notin DOMAIN AnswerOf(r)
       /\ AnswerOf(r).jsonrpc = "2.0"
       /\ AnswerOf(r).result.protocolVersion = "2024-11-05"
       /\ "tools" \in DOMAIN AnswerOf(r).result.capabilities
       /\ AnswerOf(r).result.serverInfo =
            [name |-> "sg-bus-mcp", version |-> "1.0.0"]
       /\ CarriesId(r)

\* initialize with an id and with params was answered after a tool call
C24_Witness ==
  /\ Answered(2) /\ MessageOf(2).method = "initialize"
  /\ MessageOf(2).id # Undefined /\ MessageOf(2).params # <<>>
  /\ Answered(1) /\ rpc[1].ran # "none"

\* C25: tools/list returns the same four tool definitions whatever came
\* before it.
C25_ToolsListConstant ==
  \A r \in Rpcs :
    Answered(r) /\ MessageOf(r).kind = "object"
                /\ MessageOf(r).method = "tools/list"
    => /\ "result" \in DOMAIN AnswerOf(r)
       /\ AnswerOf(r).result.tools =
            {"get_bus_arrivals", "search_bus_stops", "get_bus_stop_info",
             "get_bus_routes"}

\* tools/list was answered after a tool call whose upstream request failed
C25_Witness ==
  /\ Answered(2) /\ MessageOf(2).method = "tools/list"
  /\ Answered(1) /\ rpc[1].ran # "none" /\ rpc[1].up = "fail"

\* a tools/call that names a tool that is not registered
UnknownToolCall(r) ==
  /\ MessageOf(r).kind = "object"
  /\ MessageOf(r).method = "tools/call"
  /\ MessageOf(r).params # <<>>
  /\ MessageOf(r).params[1] \notin tools

\* C26: a tools/call that names an unregistered tool is answered with a
\* result whose text is `Unknown tool: <name>`, not with an error, and no tool
\* runs and no upstream request is made for it.
C26_UnknownToolIsResult ==
  \A r \in Rpcs :
    Answered(r) /\ UnknownToolCall(r)
    => /\ "result" \in DOMAIN AnswerOf(r)
       /\ "error" \notin DOMAIN AnswerOf(r)
       /\ AnswerOf(r).result.content =
            <<[type |-> "text",
               text |-> <<"Unknown tool: ", MessageOf(r).params[1]>>]>>
       /\ CarriesId(r)
       /\ rpc[r].ran = "none" /\ rpc[r].up = "none"

\* a request with an id called a tool that is not registered and was answered
C26_Witness ==
  \E r \in Rpcs : Answered(r) /\ UnknownToolCall(r) /\ MessageOf(r).id # Undefined

\* C27: when the tool of a tools/call fails (the upstream answers without a
\* success status) the answer is a JSON-RPC error with code -32000 and the id
\* of the request.
C27_ToolFailureIsError ==
  \A r \in Rpcs :
    Answered(r) /\ rpc[r].ran # "none" /\ rpc[r].up = "fail"
    => /\ "error" \in DOMAIN AnswerOf(r)
       /\ AnswerOf(r).error.code = -32000
       /\ CarriesId(r)

\* a request whose method the dispatcher does not know
UnknownMethod(r) ==
  /\ MessageOf(r).kind = "object"
  /\ MessageOf(r).method \notin
       {"initialize", "initialized", "tools/list", "tools/call"}

\* C28: a request with an unknown method is answered with a JSON-RPC error
\* with code -32601 and the id of the request; no tool runs, no upstream
\* request is made, and cache and registry stay as they are.
C28_UnknownMethod ==
  /\ [](\A r \in Rpcs :
          Answered(r) /\ UnknownMethod(r)
          => /\ "error" \in DOMAIN AnswerOf(r)
             /\ "result" \notin DOMAIN AnswerOf(r)
             /\ AnswerOf(r).error.code = -32601
             /\ CarriesId(r)
             /\ rpc[r].ran = "none" /\ rpc[r].up = "none")
  /\ [][\A r \in Rpcs :
          rpc[r].pc = "handling" /\ rpc'[r].pc = "done" /\ UnknownMethod(r)
          => /\ cacheVars' = cacheVars
             /\ sessionVars' = sessionVars
             /\ \A q \in Rpcs \ {r} : rpc'[q] = rpc[q]]_vars

\* a request with an unknown method, an id and params was answered
C28_Witness ==
  \E r \in Rpcs :
    /\ Answered(r) /\ UnknownMethod(r)
    /\ MessageOf(r).id # Undefined /\ MessageOf(r).params # <<>>

\* C29: on the stateless route a POST whose body is not a JSON-RPC message
\* (text that is not JSON, or a JSON value that is no object) is answered
\* HTTP 200 with {jsonrpc:"2.0", error:{code:-32000, message}, id:null}.
C29_MalformedIsHandlerError ==
  \A r \in Rpcs :
    Answered(r) /\ MessageOf(r).kind # "object"
    => /\ rpc[r].response[1].http = 200
       /\ DOMAIN AnswerOf(r) = {"jsonrpc", "error", "id"}
       /\ AnswerOf(r).jsonrpc = "2.0"
       /\ AnswerOf(r).error.code = -32000
       /\ AnswerOf(r).id = JsonNull

\* C30: on the session-routed route a POST with a registered sessionId and a
\* malformed body is answered HTTP 200 (with a JSON-RPC error with id null).
C30_SessionMalformedIs200 ==
  \A p \in Posts : post[p].body = "malformed" => post[p].http = 200

\* C35: busStopsCacheTime never decreases, and the cached payload is never
\* replaced by the result of a refresh that started earlier than the refresh
\* that produced the payload it replaces.
C35_CacheTimeMonotone ==
  [][/\ busStopsCacheTime' >= busStopsCacheTime
     /\ \A c \in Calls :
          (Fetching(c) /\ call'[c].outcome = "refreshed" /\ busStopsCache # Null)
          => call[c].now >= busStopsCacheTime]_vars

\* C36: a refresh that fails leaves busStopsCache and busStopsCacheTime as
\* they were (no empty payload is stored, the freshness of what is cached is
\* not extended), and the next getBusStops call that finds the cache absent or
\* expired starts a refresh again.
C36_FailedRefreshLeavesCache ==
  [][\A c \in Calls :
       /\ (Fetching(c) /\ call'[c].outcome = "failed")
          => /\ busStopsCache' = busStopsCache
             /\ busStopsCacheTime' = busStopsCacheTime
             /\ (busStopsCache = Null => busStopsCache' = Null)
             /\ \A now \in {clock, busStopsCacheTime + CACHE_DURATION - 1,
                             busStopsCacheTime + CACHE_DURATION} :
                  (busStopsCache' # Null
                     /\ now - busStopsCacheTime' < CACHE_DURATION)
                  <=> (busStopsCache # Null
                         /\ now - busStopsCacheTime < CACHE_DURATION)
       /\ (/\ call[c].pc = "idle" /\ call'[c].pc # "idle"
           /\ \E d \in Calls : call[d].outcome = "failed"
           /\ (busStopsCache = Null
                 \/ clock - busStopsCacheTime >= CACHE_DURATION))
          => /\ call'[c].pc = "fetching"
             /\ call'[c].requested = <<0>>]_vars

\* a refresh failed on a cold cache after the clock had advanced, and the
\* call that started after the failure requested offset 0 again
C36_Witness ==
  \E c, d \in Calls :
    /\ call[d].outcome = "failed" /\ call[d].cold
    /\ c > d /\ call[c].overlapped = {} /\ call[c].cold
    /\ call[c].pc # "idle" /\ call[c].requested # <<>>
    /\ call[c].requested[1] = 0
    /\ busStopsCacheTime = 0
    /\ clock > 0

\* C37: a session is registered before its endpoint event is emitted: while
\* a connection's channel carries its endpoint event and the connection was
\* not torn down (no abort, no heartbeat that found the stream closed), its
\* sessionId is registered, so a POST to the advertised URL in that window is
\* never answered 404: it is taken for processing on that session.
C37_AdvertisedSessionFound ==
  /\ [](\A k \in Conns :
          (conn[k].frames # <<>> /\ ~TornDown(k))
          => /\ conn[k].frames[1] = EndpointFrame(k)
             /\ k \in DOMAIN sessions)
  /\ [][\A p \in Posts, k \in SessionIds :
          (POST(p, k) /\ conn[k].state = "open" /\ ~TornDown(k))
          => /\ post'[p].http # 404
             /\ post'[p].pc = "processing"
             /\ post'[p].session = k]_vars

\* a POST to the second connection's advertised session is being processed
\* while the channel carries the endpoint event
C37_Witness ==
  \E p \in Posts :
    /\ post[p].pc = "processing" /\ post[p].session = 2
    /\ conn[2].frames # <<>> /\ conn[2].frames[1] = EndpointFrame(2)
    /\ ~TornDown(2)

\* C38: sessions are isolated. A POST addressed to session s is processed on
\* the channel registered under s; when it arrives nothing but the POST
\* changes, and when it completes it changes no other connection's channel
\* (no `message` frame appears there) and no registry entry.
C38_SessionIsolation ==
  [][/\ \A p \in Posts, s \in SessionIds :
          POST(p, s) =>
            /\ conn' = conn /\ sessions' = sessions
            /\ post'[p].pc = "processing" => post'[p].session = s
     /\ \A p \in Posts :
          Completes(p) =>
            /\ sessions' = sessions
            /\ \A t \in Conns \ {post[p].session} : conn'[t] = conn[t]
            /\ \A q \in Posts \ {p} : post'[q] = post[q]]_vars

\* two sessions are registered and open; a response was pushed on the second
\* one's channel, and the first one's channel carries no `message` event
C38_Witness ==
  /\ DOMAIN sessions = {1, 2}
  /\ ~conn[1].cancelled /\ conn[1].frames # <<>>
  /\ \A i \in DOMAIN conn[1].frames : conn[1].frames[i].event # "message"
  /\ \E p \in Posts :
       /\ post[p].pc = "done" /\ post[p].http = 200
       /\ \E i \in DOMAIN conn[2].frames : MessageFramesOf(p) = {<<2, i>>}

\* C39: the dispatcher is stateless per call. The answer to a message is a
\* function of the message and of what the upstream answered: the answer
\* that was given equals the answer the dispatcher gives to the same message
\* in every later state, whatever was answered in between, and two POSTs
\* with the same message and upstream outcome have the same answer. No
\* tools/list or tools/call is refused because initialize was not sent.
C39_StatelessPerCall ==
  /\ \A r \in Rpcs :
       Answered(r)
       => rpc[r].response =
            <<Respond(rpc[r].variant, MessageOf(r), rpc[r].up)>>
  /\ \A r, q \in Rpcs :
       (/\ Answered(r) /\ Answered(q)
        /\ MessageOf(r) = MessageOf(q) /\ rpc[r].up = rpc[q].up)
       => rpc[r].response = rpc[q].response
  /\ \A r \in Rpcs :
       (/\ Answered(r) /\ MessageOf(r).kind = "object"
        /\ MessageOf(r).id # Undefined
        /\ MessageOf(r).method = "tools/list"
             \/ (MessageOf(r).method = "tools/call" /\ rpc[r].ran # "none"
                   /\ rpc[r].up = "ok"))
       => "result" \in DOMAIN AnswerOf(r)

\* a tools/call ran its tool and was answered before any initialize, and an
\* initialize was answered after it
C39_Witness ==
  /\ Answered(1) /\ MessageOf(1).method = "tools/call"
  /\ rpc[1].ran # "none" /\ rpc[1].up = "ok"
  /\ Answered(2) /\ MessageOf(2).kind = "object"
  /\ MessageOf(2).method = "initialize"

\* POST r was answered with an envelope of the dispatcher, not with the
\* acknowledgement and not with the envelope of the POST handler's catch
DispatcherAnswered(r) ==
  /\ Answered(r)
  /\ MessageOf(r).kind \in {"object", "scalar"}
  /\ handleMessage(rpc[r].variant, MessageOf(r), rpc[r].up) # Null

\* C40: every response envelope of the dispatcher has jsonrpc "2.0", carries
\* the id of the request it answers (no id member when the request has
\* none), and contains exactly one of result and error.
C40_EnvelopeShape ==
  \A r \in Rpcs :
    DispatcherAnswered(r)
    => /\ "jsonrpc" \in DOMAIN AnswerOf(r) /\ AnswerOf(r).jsonrpc = "2.0"
       /\ CarriesId(r)
       /\ ("result" \in DOMAIN AnswerOf(r)) # ("error" \in DOMAIN AnswerOf(r))
       /\ DOMAIN AnswerOf(r) \subseteq {"jsonrpc", "id", "result", "error"}

\* an error envelope that carries the id of its request, and a result
\* envelope for a request without id
C40_Witness ==
  /\ DispatcherAnswered(1) /\ MessageOf(1).id # Undefined
  /\ "error" \in DOMAIN AnswerOf(1)
  /\ DispatcherAnswered(2) /\ MessageOf(2).id = Undefined
  /\ "result" \in DOMAIN AnswerOf(2)

\* C31: on the stateless route the response to a request is the body of the
\* HTTP answer to the POST that carried it; a POST changes no SSE stream, and
\* a stream carries one endpoint event, as its first frame, and heartbeats:
\* never a `message` event.
C31_ResponseInPostBody ==
  /\ [](\A s \in Streams : \A i \in DOMAIN stream[s].frames :
          /\ stream[s].frames[i].event \in {"endpoint", "heartbeat"}
          /\ stream[s].frames[i].event = "endpoint" <=> i = 1)
  /\ [](\A r \in Rpcs :
          DispatcherAnswered(r)
          => /\ rpc[r].response[1].http = 200
             /\ AnswerOf(r) =
                  Stringify(Value(handleMessage(rpc[r].variant, MessageOf(r),
                                                rpc[r].up))))
  /\ [][rpc' # rpc => stream' = stream]_vars

\* a request was answered in its POST's body while a stream was open that
\* carries the endpoint event, the initial and a periodic heartbeat
C31_Witness ==
  \E s \in Streams, r \in Rpcs :
    /\ stream[s].state = "open" /\ Len(stream[s].frames) >= 3
    /\ DispatcherAnswered(r) /\ rpc[r].ran # "none"
    /\ "result" \in DOMAIN AnswerOf(r)

\* C32: a tools/call of get_bus_arrivals with bus_stop_code c, answered by the
\* upstream with a success status and no services (Services empty or
\* missing), gets a result, not an error, whose text is `No bus services
\* found at bus stop c. Please check if the bus stop code is correct.`
C32_NoServicesText ==
  \A r \in Rpcs :
    (Answered(r) /\ rpc[r].ran = "get_bus_arrivals"
                 /\ rpc[r].up \in {"empty", "missing"})
    => /\ rpc[r].response[1].http = 200
       /\ "result" \in DOMAIN AnswerOf(r)
       /\ "error" \notin DOMAIN AnswerOf(r)
       /\ AnswerOf(r).result.content =
            <<[type |-> "text",
               text |-> <<"No bus services found at bus stop ",
                          MessageOf(r).params[2],
                          ". Please check if the bus stop code is correct.">>]>>

\* both cases, for two bus stop codes: Services missing, then Services empty
C32_Witness ==
  /\ Answered(1) /\ rpc[1].up = "missing" /\ MessageOf(1).params[2] = "83139"
  /\ Answered(2) /\ rpc[2].up = "empty" /\ MessageOf(2).params[2] = "01012"

\* the offset at which the scan of a tool of the uncached routes gives up
ScanMax(tool) ==
  IF tool = "get_bus_routes" THEN BUS_ROUTES_MAX ELSE BUS_STOPS_MAX

\* C33: on the uncached routes one tool call makes at most 12 BusStops page
\* requests (offsets 0 to 5500) or at most 10 BusRoutes page requests
\* (offsets 0 to 4500), requests no offset at or beyond 6000 / 5000, and
\* makes no request after the first page that is empty or shorter than the
\* page size.
C33_ScanBounded ==
  scan.variant = "uncached" =>
    /\ Len(scan.requested) <=
         (IF scan.tool = "get_bus_routes" THEN 10 ELSE 12)
    /\ \A i \in DOMAIN scan.requested :
         /\ scan.requested[i] = (i - 1) * PAGE_SIZE
         /\ scan.requested[i] < ScanMax(scan.tool)
    /\ \A i \in DOMAIN scan.received :
         scan.received[i].len < PAGE_SIZE => Len(scan.requested) <= i

\* the pages of the dataset that the scan range of the call covers
InScanRange(i) ==
  scan.variant = "uncached" => (i - 1) * PAGE_SIZE < ScanMax(scan.tool)

\* C34: getBusRoutes returns the full route of the service: every record of
\* the service on a page within the scan range is in the result, wherever
\* the records lie, also on a page after one without records of the service.
C34_FullRoute ==
  (scan.pc = "done" /\ scan.tool = "get_bus_routes"
                    /\ scan.outcome = "returned")
  => scan.allRoutes = {i \in scan.data.hits : InScanRange(i)}
====
